---- MODULE Spec2Model ----
(***************************************************************************)
(* Model of visualization.py: a script that loads a table of gas-station   *)
(* price observations and runs three renderers in a fixed order            *)
(* (plotTimeGraph, plotHeatMap, plotInteractive), each ending in a         *)
(* delete-then-save step wrapped in try/except.                            *)
(*                                                                         *)
(* Cells of the table are records tagged by a field k:                     *)
(*   "num" (a rational n/d in lowest terms), "nan", "str", "ts" (a parsed  *)
(*   timestamp), "nat" (pandas NaT).                                       *)
(* Time tags are strings spelled out as sequences of characters, so that   *)
(* str.lower() and str.strip() are computed and not assumed.               *)
(***************************************************************************)
EXTENDS Integers, Sequences, FiniteSets, TLC

(***************************************************************************)
(* xlsx           the input sheet on disk, or Absent                       *)
(* df             the module-level frame the three renderers are called on *)
(* files          the content found at each of the three output paths      *)
(* log            the lines appended to the log file                       *)
(* pc             the statement the script is at: "start", a renderer's    *)
(*                call, "exit" (ran to its end) or "crashed" (left by an   *)
(*                exception)                                               *)
(* exc            the uncaught exception, "none" when there is none        *)
(* run            which invocation of the script this is                   *)
(* faultsLeft     how many more times os.remove or a write will raise      *)
(* mapRejectsNaN  whether the installed folium.Map raises on a NaN centre  *)
(* prev           the output files and the log length at the start of this *)
(*                run, and whether the run before had no failed save       *)
(***************************************************************************)
VARIABLES xlsx, df, files, log, pc, exc, run, faultsLeft, mapRejectsNaN, prev

vars == <<xlsx, df, files, log, pc, exc, run, faultsLeft, mapRejectsNaN, prev>>

(***************************************************************************)
(* Bounds of the model.                                                    *)
(***************************************************************************)
MaxRows == 2
MaxFaults == 1
MaxRuns == 2

(***************************************************************************)
(* Program constants.                                                      *)
(***************************************************************************)
RegularLower == 100
RegularUpper == 200
PremiumLower == 150
PremiumUpper == 250

hm_output_path == "./output/heatmap.html"
ts_output_path == "./output/time_series.png"
it_output_path == "./output/interactive_graph.html"

OutputPaths == {ts_output_path, hm_output_path, it_output_path}

(***************************************************************************)
(* Cell values.                                                            *)
(***************************************************************************)
RECURSIVE GCD(_, _)
GCD(a, b) == IF b = 0 THEN a ELSE GCD(b, a % b)

Abs(x) == IF x < 0 THEN -x ELSE x

\* the rational n/d (d > 0) in lowest terms
Rat(n, d) ==
    LET g == GCD(Abs(n), d)
    IN  [k |-> "num", n |-> n \div g, d |-> d \div g]

Num(v) == [k |-> "num", n |-> v, d |-> 1]
NaN == [k |-> "nan"]
NaT == [k |-> "nat"]
Str(s) == [k |-> "str", s |-> s]
Ts(date, time) == [k |-> "ts", date |-> date, time |-> time]

IsNum(c) == c.k = "num"
\* pandas isna(): NaN and NaT are both missing values
IsNA(c) == c.k \in {"nan", "nat"}

RatLt(a, b) == a.n * b.d < b.n * a.d
RatLe(a, b) == a.n * b.d <= b.n * a.d

(***************************************************************************)
(* Sequence helpers.                                                       *)
(***************************************************************************)
RECURSIVE SelectIdx(_, _, _)
SelectIdx(s, Keep(_), i) ==
    IF i > Len(s) THEN <<>>
    ELSE IF Keep(s[i]) THEN <<s[i]>> \o SelectIdx(s, Keep, i + 1)
    ELSE SelectIdx(s, Keep, i + 1)

Filter(s, Keep(_)) == SelectIdx(s, Keep, 1)

Map(s, F(_)) == [i \in 1..Len(s) |-> F(s[i])]

Range(s) == {s[i] : i \in 1..Len(s)}

\* the distinct values of s in order of first appearance (Series.unique)
RECURSIVE UniqueFrom(_, _, _)
UniqueFrom(s, i, seen) ==
    IF i > Len(s) THEN <<>>
    ELSE IF s[i] \in seen THEN UniqueFrom(s, i + 1, seen)
    ELSE <<s[i]>> \o UniqueFrom(s, i + 1, seen \cup {s[i]})

Unique(s) == UniqueFrom(s, 1, {})

\* the sum of a sequence of rationals
RECURSIVE SumFrom(_, _)
SumFrom(s, i) ==
    IF i > Len(s) THEN Num(0)
    ELSE LET r == SumFrom(s, i + 1)
         IN  Rat(s[i].n * r.d + r.n * s[i].d, s[i].d * r.d)

\* Series.mean(): NaN is skipped; the mean of nothing is NaN
Mean(s) ==
    LET nums == Filter(s, IsNum)
    IN  IF Len(nums) = 0 THEN NaN
        ELSE LET t == SumFrom(nums, 1) IN Rat(t.n, t.d * Len(nums))

\* Series.min() / Series.max(): NaN is skipped; NaN when nothing is left
SeriesMin(s) ==
    LET nums == Filter(s, IsNum)
    IN  IF Len(nums) = 0 THEN NaN
        ELSE CHOOSE m \in Range(nums) : \A x \in Range(nums) : RatLe(m, x)

SeriesMax(s) ==
    LET nums == Filter(s, IsNum)
    IN  IF Len(nums) = 0 THEN NaN
        ELSE CHOOSE m \in Range(nums) : \A x \in Range(nums) : RatLe(x, m)

\* a < b on floats: false as soon as one side is NaN
FloatLt(a, b) == IsNum(a) /\ IsNum(b) /\ RatLt(a, b)

\* a finite set of integers as an increasing sequence
RECURSIVE SortedInts(_)
SortedInts(S) ==
    IF S = {} THEN <<>>
    ELSE LET m == CHOOSE x \in S : \A y \in S : x <= y
         IN  <<m>> \o SortedInts(S \ {m})

(***************************************************************************)
(* Strings of the "Time Tag" column, as sequences of characters.           *)
(***************************************************************************)
UpperCase == <<"A","B","C","D","E","F","G","H","I","J","K","L","M",
               "N","O","P","Q","R","S","T","U","V","W","X","Y","Z">>
LowerCase == <<"a","b","c","d","e","f","g","h","i","j","k","l","m",
               "n","o","p","q","r","s","t","u","v","w","x","y","z">>
Whitespace == {" ", "\t", "\n"}

LowerChar(c) ==
    IF \E i \in 1..Len(UpperCase) : UpperCase[i] = c
    THEN LowerCase[CHOOSE i \in 1..Len(UpperCase) : UpperCase[i] = c]
    ELSE c

\* str.lower()
StrLower(s) == [i \in 1..Len(s) |-> LowerChar(s[i])]

\* str.strip(): leading and trailing whitespace removed
RECURSIVE LStrip(_)
LStrip(s) ==
    IF s # <<>> /\ Head(s) \in Whitespace THEN LStrip(Tail(s)) ELSE s

RECURSIVE RStrip(_)
RStrip(s) ==
    IF s # <<>> /\ s[Len(s)] \in Whitespace
    THEN RStrip(SubSeq(s, 1, Len(s) - 1))
    ELSE s

StrStrip(s) == RStrip(LStrip(s))

\* the normalisation without the strip
NormalizeTagNoStrip(c) == IF c.k = "str" THEN Str(StrLower(c.s)) ELSE NaN

\* df["Time Tag"].str.lower().str.strip(), on one cell
NormalizeTag(c) == IF c.k = "str" THEN Str(StrStrip(StrLower(c.s))) ELSE NaN

TagMorningCap == <<"M","o","r","n","i","n","g">>
TagMorningSp == <<"m","o","r","n","i","n","g"," ">>
TagEveningCap == <<"E","v","e","n","i","n","g">>
TagNoon == <<" ","N","O","O","N">>
morning == <<"m","o","r","n","i","n","g">>
afternoon == <<"a","f","t","e","r","n","o","o","n">>
evening == <<"e","v","e","n","i","n","g">>
midnight == <<"m","i","d","n","i","g","h","t">>

\* time_colors.get(tag, "gray")
TimeColor(tag) ==
    IF tag = Str(morning) THEN "orange"
    ELSE IF tag = Str(afternoon) THEN "green"
    ELSE IF tag = Str(evening) THEN "blue"
    ELSE IF tag = Str(midnight) THEN "purple"
    ELSE "gray"

(***************************************************************************)
(* pd.to_datetime(..., errors="coerce") on one cell: a timestamp stays, a  *)
(* string in a known format is parsed, everything else becomes NaT.        *)
(***************************************************************************)
ParseTime(s) ==
    CASE s = "2024-01-01 08:00" -> Ts(20240101, 800)
      [] s = "2024-01-02 18:30" -> Ts(20240102, 1830)
      [] OTHER -> NaT

ToDatetime(c) ==
    IF c.k = "ts" THEN c
    ELSE IF c.k = "str" THEN ParseTime(c.s)
    ELSE NaT

\* Series.dt.date: the calendar date of a timestamp
DateOf(c) == IF c.k = "ts" THEN Num(c.date) ELSE NaT

(***************************************************************************)
(* eval(x) on a "Location" cell: the value of the expression, or an        *)
(* exception.  items is the mapping the expression evaluates to.           *)
(***************************************************************************)
LocToronto == "{'Latitude': 43, 'Longitude': -79}"
LocOttawa == "{'Latitude': 45, 'Longitude': -75}"
LocNoLongitude == "{'Latitude': 43}"
LocFreeText == "Toronto, ON"

Raises == [k |-> "raise", items |-> <<>>]

PyEval(c) ==
    IF c.k # "str" THEN Raises
    ELSE CASE c.s = LocToronto ->
                [k |-> "dict", items |-> [Latitude |-> Num(43), Longitude |-> Num(-79)]]
           [] c.s = LocOttawa ->
                [k |-> "dict", items |-> [Latitude |-> Num(45), Longitude |-> Num(-75)]]
           [] c.s = LocNoLongitude ->
                [k |-> "dict", items |-> [Latitude |-> Num(43)]]
           [] OTHER -> Raises

\* eval(x)[key] raises when eval does or when the key is missing
LookupRaises(c, key) == PyEval(c).k = "raise" \/ key \notin DOMAIN PyEval(c).items

Lookup(c, key) == PyEval(c).items[key]

(***************************************************************************)
(* The spreadsheet: rows over the eight columns.                           *)
(***************************************************************************)
Columns == {"Station ID", "Station Name", "Address", "Location", "Time Tag",
            "Query Time", "Regular Price", "Premium Price"}

MkRow(sid, name, loc, tag, qt, reg, prem) ==
    [c \in Columns |->
        CASE c = "Station ID" -> Num(sid)
          [] c = "Station Name" -> name
          [] c = "Address" -> Str("1 Main St")
          [] c = "Location" -> Str(loc)
          [] c = "Time Tag" -> Str(tag)
          [] c = "Query Time" -> qt
          [] c = "Regular Price" -> reg
          [] c = "Premium Price" -> prem]

RowMorning == MkRow(1, Str("Esso"), LocToronto, TagMorningCap,
                    Str("2024-01-01 08:00"), Num(110), Num(160))
RowMorning2 == MkRow(1, Str("Esso"), LocToronto, TagMorningSp,
                     Ts(20240101, 930), Num(130), Num(180))
RowEvening == MkRow(1, Str("Esso"), LocToronto, TagEveningCap,
                    Ts(20240101, 1800), Num(999), Num(5))
RowRenamed == MkRow(1, Str("Shell"), LocToronto, TagMorningCap,
                    Ts(20240102, 800), Num(120), Num(170))
RowBadTime == MkRow(2, Str("Petro"), LocOttawa, midnight,
                    Str("n/a"), Num(140), Num(180))
RowNoRegular == MkRow(2, Str("Petro"), LocOttawa, TagEveningCap,
                      Str("2024-01-02 18:30"), NaN, Num(170))
RowFreeTextLoc == MkRow(2, Str("Petro"), LocFreeText, morning,
                        Ts(20240101, 800), Num(120), Num(170))
RowNoLongitude == MkRow(2, Str("Petro"), LocNoLongitude, afternoon,
                        Ts(20240101, 1500), Num(150), Num(200))
RowNoon == MkRow(2, Str("Petro"), LocOttawa, TagNoon,
                 Ts(20240101, 1200), Num(120), Num(160))
RowExtreme == MkRow(2, Str("Petro"), LocOttawa, TagEveningCap,
                    Ts(20240101, 1800), Num(50), Num(300))
RowNoName == MkRow(3, NaN, LocOttawa, morning,
                   NaN, Num(120), Num(190))

\* the rows the sheets of up to MaxRows rows are drawn from
RowUniverse == {RowMorning, RowMorning2, RowRenamed, RowBadTime,
                RowNoRegular, RowFreeTextLoc, RowNoLongitude, RowNoon,
                RowExtreme, RowNoName}

\* the three rows of the end-to-end scenario
ScenarioSheet == <<RowMorning, RowMorning2, RowEvening>>

Sheets == UNION {[1..n -> RowUniverse] : n \in 0..MaxRows}

\* the order of strings that sort_values / groupby use on station names
NameRank(c) ==
    IF c = Str("Esso") THEN 1
    ELSE IF c = Str("Petro") THEN 2
    ELSE IF c = Str("Shell") THEN 3
    ELSE 0

(***************************************************************************)
(* Data frames: a set of column names and a sequence of rows; a row maps   *)
(* every column, and "index" (its pandas index label), to a cell.          *)
(***************************************************************************)
\* pd.read_excel: the sheet's rows under a RangeIndex
ReadExcel(sheet) ==
    [columns |-> Columns,
     rows |-> [i \in 1..Len(sheet) |-> sheet[i] @@ ("index" :> Num(i - 1))]]

\* frame[col] = F(row), for every row
SetColumn(frame, col, F(_)) ==
    [columns |-> frame.columns \cup {col},
     rows |-> [i \in 1..Len(frame.rows) |->
                 [c \in DOMAIN frame.rows[i] \cup {col} |->
                     IF c = col THEN F(frame.rows[i]) ELSE frame.rows[i][c]]]]

\* a dropna that drops nothing
DropNaKeepsAll(frame, subset) == frame

\* frame.dropna(subset=...): a new frame without the rows missing a value
DropNa(frame, subset) ==
    LET Complete(r) == \A c \in subset : ~IsNA(r[c])
    IN  [columns |-> frame.columns, rows |-> Filter(frame.rows, Complete)]

Column(frame, col) == [i \in 1..Len(frame.rows) |-> frame.rows[i][col]]

\* frame.pivot_table(index="Date", columns="Time Tag", values=..., aggfunc="mean"):
\* rows with a missing key are left out of the groups, a group's mean skips
\* NaN, and index entries and columns that hold no value at all are dropped.
PivotTable(frame, values) ==
    LET keyed == Filter(frame.rows,
                        LAMBDA r : ~IsNA(r["Date"]) /\ ~IsNA(r["Time Tag"]))
        dates == {r["Date"] : r \in Range(keyed)}
        tags == {r["Time Tag"] : r \in Range(keyed)}
        Cell(d, t) ==
            Mean(Map(Filter(keyed, LAMBDA r : r["Date"] = d /\ r["Time Tag"] = t),
                     LAMBDA r : r[values]))
        index == {d \in dates : \E t \in tags : IsNum(Cell(d, t))}
        cols == {t \in tags : \E d \in dates : IsNum(Cell(d, t))}
        order == SortedInts({d.n : d \in index})
    IN  [index |-> [i \in 1..Len(order) |-> Num(order[i])],
         columns |-> cols,
         cell |-> [key \in index \X cols |-> Cell(key[1], key[2])]]

(***************************************************************************)
(* plotTimeGraph, up to the save step.                                     *)
(***************************************************************************)
\* line 31: the assignment goes to the frame the caller passed
TimeGraphParsed(frame) ==
    SetColumn(frame, "Query Time", LAMBDA r : ToDatetime(r["Query Time"]))

\* lines 32-34, on the new frame dropna returns
TimeGraphFrame(parsed) ==
    LET kept == DropNa(parsed, {"Query Time"})
        dated == SetColumn(kept, "Date", LAMBDA r : DateOf(r["Query Time"]))
    IN  SetColumn(dated, "Time Tag", LAMBDA r : NormalizeTag(r["Time Tag"]))

PivotColumn(pivot, tag) ==
    [i \in 1..Len(pivot.index) |-> pivot.cell[<<pivot.index[i], tag>>]]

\* lines 47-62: per tag, a solid line for regular and a dashed one for premium
RECURSIVE TimeGraphLines(_, _, _, _)
TimeGraphLines(tags, i, pivot_regular, pivot_premium) ==
    IF i > Len(tags) THEN <<>>
    ELSE
        (IF tags[i] \in pivot_regular.columns
         THEN <<[label |-> <<"Regular", tags[i]>>, marker |-> "o", linestyle |-> "-",
                 x |-> pivot_regular.index, y |-> PivotColumn(pivot_regular, tags[i])]>>
         ELSE <<>>)
        \o
        (IF tags[i] \in pivot_premium.columns
         THEN <<[label |-> <<"Premium", tags[i]>>, marker |-> "x", linestyle |-> "--",
                 x |-> pivot_premium.index, y |-> PivotColumn(pivot_premium, tags[i])]>>
         ELSE <<>>)
        \o TimeGraphLines(tags, i + 1, pivot_regular, pivot_premium)

TimeGraphFigure(frame) ==
    LET pivot_regular == PivotTable(frame, "Regular Price")
        pivot_premium == PivotTable(frame, "Premium Price")
    IN  [k |-> "png",
         pivot_regular |-> pivot_regular,
         pivot_premium |-> pivot_premium,
         lines |-> TimeGraphLines(Unique(Column(frame, "Time Tag")), 1,
                                  pivot_regular, pivot_premium),
         xlabel |-> "Date", ylabel |-> "Price (cents/liter)"]

(***************************************************************************)
(* The save step shared by the three renderers: try: if the file exists,   *)
(* log and remove it; write; log success; except Exception: log the error. *)
(* outcome is what the file system does: "ok", "remove_raises",            *)
(* "write_raises" (nothing was created) or "write_raises_partial" (the     *)
(* write created the file and raised before completing it).                *)
(***************************************************************************)
Absent == [k |-> "absent"]
Stale == [k |-> "stale"]
Partial == [k |-> "partial"]

Exists(file) == file # Absent

SaveOutcomes(file, budget) ==
    {"ok"} \cup (IF budget > 0 THEN {"write_raises", "write_raises_partial"} ELSE {})
           \cup (IF budget > 0 /\ Exists(file) THEN {"remove_raises"} ELSE {})

\* a save step that writes only when there was nothing to remove
SaveFileElse(file, content, outcome) ==
    IF Exists(file) /\ outcome = "remove_raises" THEN file
    ELSE IF Exists(file) THEN Absent
    ELSE IF outcome = "write_raises" THEN Absent
    ELSE IF outcome = "write_raises_partial" THEN Partial
    ELSE content

\* a save step that writes aside and replaces the old file on success only
SaveFileKeepsOld(file, content, outcome) ==
    IF outcome = "ok" THEN content ELSE file

SaveFile(file, content, outcome) ==
    IF Exists(file) /\ outcome = "remove_raises" THEN file
    ELSE IF outcome = "write_raises" THEN Absent
    ELSE IF outcome = "write_raises_partial" THEN Partial
    ELSE content

Entry(fn, msg, arg) == [fn |-> fn, msg |-> msg, arg |-> arg]

SaveLog(fn, path, file, outcome) ==
    (IF Exists(file) THEN <<Entry(fn, "already exists. Deleting it.", path)>> ELSE <<>>)
    \o
    (IF Exists(file) /\ outcome = "remove_raises"
     THEN <<Entry(fn, "An error occurred", "remove")>>
     ELSE IF outcome \in {"write_raises", "write_raises_partial"}
     THEN <<Entry(fn, "An error occurred", "write")>>
     ELSE <<Entry(fn, "saved", path)>>)

(***************************************************************************)
(* plotHeatMap, up to the save step.                                       *)
(***************************************************************************)
\* lines 85-86: the row-wise eval(x)[key] raises on the first bad row
ApplyRaises(frame, key) ==
    \E i \in 1..Len(frame.rows) : LookupRaises(frame.rows[i]["Location"], key)

ApplyLookup(frame, key) ==
    SetColumn(frame, key, LAMBDA r : Lookup(r["Location"], key))

\* a clip that forgets the upper bound
ClipLowerOnly(c, lower, upper) ==
    IF ~IsNum(c) THEN c
    ELSE IF RatLt(c, Num(lower)) THEN Num(lower)
    ELSE c

\* Series.clip(lower, upper): NaN stays NaN
Clip(c, lower, upper) ==
    IF ~IsNum(c) THEN c
    ELSE IF RatLt(c, Num(lower)) THEN Num(lower)
    ELSE IF RatLt(Num(upper), c) THEN Num(upper)
    ELSE c

\* lines 89-93, on the new frame dropna returns
HeatMapFrame(located) ==
    LET priced == DropNa(located, {"Regular Price", "Premium Price"})
        regular == SetColumn(priced, "Regular Price",
                       LAMBDA r : Clip(r["Regular Price"], RegularLower, RegularUpper))
    IN  SetColumn(regular, "Premium Price",
                  LAMBDA r : Clip(r["Premium Price"], PremiumLower, PremiumUpper))

GroupKeys == <<"Station ID", "Station Name", "Latitude", "Longitude">>

KeyOf(r) == [i \in 1..Len(GroupKeys) |-> r[GroupKeys[i]]]

\* the lexicographic order groupby sorts its keys by
KeyLt(a, b) ==
    \/ RatLt(a[1], b[1])
    \/ a[1] = b[1] /\ NameRank(a[2]) < NameRank(b[2])
    \/ a[1] = b[1] /\ a[2] = b[2] /\ RatLt(a[3], b[3])
    \/ a[1] = b[1] /\ a[2] = b[2] /\ a[3] = b[3] /\ RatLt(a[4], b[4])

RECURSIVE SortedKeys(_)
SortedKeys(S) ==
    IF S = {} THEN <<>>
    ELSE LET m == CHOOSE x \in S : \A y \in S \ {x} : KeyLt(x, y)
         IN  <<m>> \o SortedKeys(S \ {m})

\* lines 96-98: groupby([...], as_index=False).agg(mean); rows with a
\* missing key are in no group, groups come sorted by key
GroupMeans(frame) ==
    LET keyed == Filter(frame.rows,
                        LAMBDA r : \A i \in 1..Len(GroupKeys) : ~IsNA(r[GroupKeys[i]]))
        keys == SortedKeys({KeyOf(r) : r \in Range(keyed)})
        Group(key) == Filter(keyed, LAMBDA r : KeyOf(r) = key)
        Agg(key) ==
            [c \in Range(GroupKeys) \cup {"Regular Price", "Premium Price"} |->
                CASE c = "Regular Price" ->
                        Mean(Map(Group(key), LAMBDA r : r["Regular Price"]))
                  [] c = "Premium Price" ->
                        Mean(Map(Group(key), LAMBDA r : r["Premium Price"]))
                  [] OTHER -> key[CHOOSE i \in 1..Len(GroupKeys) : GroupKeys[i] = c]]
    IN  [columns |-> Range(GroupKeys) \cup {"Regular Price", "Premium Price"},
         rows |-> [i \in 1..Len(keys) |-> Agg(keys[i])]]

\* the guard with its operands swapped
ValidThresholdsSwapped(min, max) == FloatLt(max, min)

\* lines 103 and 136 (regular), 118 and 157 (premium): the layer's guard
ValidThresholds(min, max) == FloatLt(min, max)

RatSub(a, b) == Rat(a.n * b.d - b.n * a.d, a.d * b.d)

\* a LinearColormap called on a value: the colour at the value's relative
\* position between vmin and vmax on the scale's colour stops
ColorAt(scale, v) ==
    LET num == RatSub(v, scale.vmin)
        den == RatSub(scale.vmax, scale.vmin)
    IN  [colors |-> scale.colors, at |-> Rat(num.n * den.d, num.d * den.n)]

LinearColormap(colors, vmin, vmax, caption) ==
    [kind |-> "LinearColormap", colors |-> colors, vmin |-> vmin, vmax |-> vmax,
     caption |-> caption]

\* f"{x:.2f}": the value to the nearest hundredth, in hundredths
Fmt2(v) == (200 * v.n + v.d) \div (2 * v.d)

\* lines 137-150 and 158-171: one CircleMarker per row of avg_prices
Markers(avg_prices, price, label, scale) ==
    [i \in 1..Len(avg_prices.rows) |->
        LET row == avg_prices.rows[i]
        IN  [location |-> <<row["Latitude"], row["Longitude"]>>,
             radius |-> 7,
             popup |-> [station |-> row["Station Name"], label |-> label,
                        price |-> Fmt2(row[price])],
             color |-> ColorAt(scale, row[price])]]

\* lines 134-153 (regular) and 155-174 (premium): the FeatureGroup and the
\* legend are added only under valid thresholds
LayerChildren(avg_prices, price, label, colors, caption) ==
    LET min == SeriesMin(Column(avg_prices, price))
        max == SeriesMax(Column(avg_prices, price))
        scale == LinearColormap(colors, min, max, caption)
    IN  IF ValidThresholds(min, max)
        THEN <<[kind |-> "FeatureGroup", name |-> caption,
                markers |-> Markers(avg_prices, price, label, scale)],
               scale>>
        ELSE <<>>

\* lines 110-113 and 125-128
ThresholdWarnings(avg_prices, price, what) ==
    IF ValidThresholds(SeriesMin(Column(avg_prices, price)),
                       SeriesMax(Column(avg_prices, price)))
    THEN <<>>
    ELSE <<Entry("plotHeatMap", "Warning: Invalid thresholds", what)>>

MapCenter(avg_prices) ==
    <<Mean(Column(avg_prices, "Latitude")), Mean(Column(avg_prices, "Longitude"))>>

\* lines 130-177
HeatMapDocument(avg_prices) ==
    [k |-> "html",
     location |-> MapCenter(avg_prices),
     zoom_start |-> 12,
     children |->
        LayerChildren(avg_prices, "Regular Price", "Regular Price",
                      <<"green", "yellow", "red">>, "Regular Gas Prices")
        \o LayerChildren(avg_prices, "Premium Price", "Premium Price",
                         <<"blue", "purple", "pink">>, "Premium Gas Prices")
        \o <<[kind |-> "LayerControl"]>>]

(***************************************************************************)
(* plotInteractive, up to the save step.                                   *)
(***************************************************************************)
\* lines 194-198, on a copy of the frame the caller passed
InteractiveFrame(frame) ==
    LET parsed == SetColumn(frame, "Query Time", LAMBDA r : ToDatetime(r["Query Time"]))
        kept == DropNa(parsed, {"Query Time"})
        dated == SetColumn(kept, "Date", LAMBDA r : DateOf(r["Query Time"]))
    IN  SetColumn(dated, "Time Tag", LAMBDA r : NormalizeTag(r["Time Tag"]))

\* lines 213-244: one marker trace per tag, a point per row of that tag
Traces(frame, price, name, symbol, subplot) ==
    LET tags == Unique(Column(frame, "Time Tag"))
    IN  [i \in 1..Len(tags) |->
            LET sub_df == Filter(frame.rows, LAMBDA r : r["Time Tag"] = tags[i])
            IN  [name |-> <<name, tags[i]>>,
                 row |-> subplot,
                 marker |-> [color |-> TimeColor(tags[i]), size |-> 9, symbol |-> symbol],
                 points |-> [j \in 1..Len(sub_df) |->
                               [index |-> sub_df[j]["index"],
                                x |-> sub_df[j]["Query Time"],
                                y |-> sub_df[j][price],
                                hovertext |-> <<sub_df[j]["Station Name"],
                                                sub_df[j]["Station ID"],
                                                sub_df[j]["Address"]>>]]]]

InteractiveFigure(frame) ==
    [k |-> "html",
     traces |-> Traces(frame, "Regular Price", "Regular", "circle", 1)
                \o Traces(frame, "Premium Price", "Premium", "diamond", 2),
     height |-> 1600]

(***************************************************************************)
(* The script: lines 17-27 configure logging and load the sheet, lines     *)
(* 269-271 call the three renderers on the one loaded frame.               *)
(***************************************************************************)
NoFrame == [columns |-> {}, rows |-> <<>>]

\* the log entries of the current run
RunLog == SubSeq(log, prev.logLen + 1, Len(log))

SaveFailed(entries, fn) ==
    \E i \in 1..Len(entries) :
        entries[i].fn = fn /\ entries[i].msg = "An error occurred"

\* no save step of the current run has raised
RunClean == \A fn \in {"plotTimeGraph", "plotHeatMap", "plotInteractive"} :
                ~SaveFailed(RunLog, fn)

\* the sheets the runs with file-system faults are explored on
FaultSheets == {ScenarioSheet, <<RowFreeTextLoc>>, <<RowNoon, RowBadTime>>, <<>>}

Init ==
    /\ \/ /\ xlsx \in {[k |-> "xlsx", sheet |-> t] : t \in Sheets \cup {ScenarioSheet}}
          /\ faultsLeft = 0
          /\ files \in {[p \in OutputPaths |-> f] : f \in {Absent, Stale}}
       \/ /\ xlsx \in {[k |-> "xlsx", sheet |-> t] : t \in FaultSheets} \cup {Absent}
          /\ faultsLeft = MaxFaults
          /\ files \in [OutputPaths -> {Absent, Stale}]
    /\ mapRejectsNaN \in BOOLEAN
    /\ df = NoFrame
    /\ log = <<>>
    /\ pc = "start"
    /\ exc = "none"
    /\ run = 1
    /\ prev = [files |-> files, logLen |-> 0, clean |-> FALSE]

\* lines 17-27
Start ==
    /\ pc = "start"
    /\ log' = Append(log, Entry("<module>", "Visualizing gas prices data...", ""))
    /\ IF xlsx = Absent
       THEN /\ pc' = "crashed"
            /\ exc' = "read_excel"
            /\ df' = df
       ELSE /\ pc' = "plotTimeGraph"
            /\ exc' = exc
            /\ df' = ReadExcel(xlsx.sheet)
    /\ UNCHANGED <<xlsx, files, run, faultsLeft, mapRejectsNaN, prev>>

\* "except Exception" (lines 79, 187, 266): the clause catches whatever the
\* existence check, os.remove or the write raised
CaughtNarrow(outcome) == outcome = "remove_raises"

Caught(outcome) == outcome \in {"remove_raises", "write_raises", "write_raises_partial"}

\* the save step of renderer fn, whose body has logged the entries logged:
\* the renderer returns, and the script goes on to next, unless the step
\* raised past the except clause
SaveAndContinue(fn, path, content, next, logged) ==
    \E outcome \in SaveOutcomes(files[path], faultsLeft) :
        /\ files' = [files EXCEPT ![path] = SaveFile(files[path], content, outcome)]
        /\ faultsLeft' = IF outcome = "ok" THEN faultsLeft ELSE faultsLeft - 1
        /\ IF outcome = "ok" \/ Caught(outcome)
           THEN /\ log' = log \o logged \o SaveLog(fn, path, files[path], outcome)
                /\ pc' = next
                /\ exc' = exc
           ELSE /\ log' = log \o logged
                /\ pc' = "crashed"
                /\ exc' = "save"

\* lines 29-80, called at line 269
plotTimeGraph ==
    /\ pc = "plotTimeGraph"
    /\ df' = TimeGraphParsed(df)
    /\ SaveAndContinue("plotTimeGraph", ts_output_path,
                       TimeGraphFigure(TimeGraphFrame(TimeGraphParsed(df))),
                       "plotHeatMap", <<>>)
    /\ UNCHANGED <<xlsx, run, mapRejectsNaN, prev>>

\* lines 83-132: what the heat map's body does before its save step
HeatMapBody(frame, rejectsNaN) ==
    IF ApplyRaises(frame, "Latitude")
    THEN [exc |-> "eval Location", df |-> frame, warnings |-> <<>>, doc |-> Absent]
    ELSE IF ApplyRaises(ApplyLookup(frame, "Latitude"), "Longitude")
    THEN [exc |-> "eval Location", df |-> ApplyLookup(frame, "Latitude"),
          warnings |-> <<>>, doc |-> Absent]
    ELSE
        LET located == ApplyLookup(ApplyLookup(frame, "Latitude"), "Longitude")
            avg_prices == GroupMeans(HeatMapFrame(located))
            warnings == ThresholdWarnings(avg_prices, "Regular Price", "regular")
                        \o ThresholdWarnings(avg_prices, "Premium Price", "premium")
        IN  IF rejectsNaN /\ \E i \in 1..2 : IsNA(MapCenter(avg_prices)[i])
            THEN [exc |-> "folium.Map", df |-> located, warnings |-> warnings,
                  doc |-> Absent]
            ELSE [exc |-> "none", df |-> located, warnings |-> warnings,
                  doc |-> HeatMapDocument(avg_prices)]

\* lines 83-132 stand outside any try: an exception raised there leaves
\* plotHeatMap and the script
PropagatesNever(e) == FALSE

Propagates(e) == e # "none"

\* lines 83-188, called at line 270
plotHeatMap ==
    /\ pc = "plotHeatMap"
    /\ LET body == HeatMapBody(df, mapRejectsNaN)
       IN  /\ df' = body.df
           /\ IF Propagates(body.exc)
              THEN /\ pc' = "crashed"
                   /\ exc' = body.exc
                   /\ log' = log \o body.warnings
                   /\ UNCHANGED <<files, faultsLeft>>
              ELSE SaveAndContinue("plotHeatMap", hm_output_path, body.doc,
                                   "plotInteractive", body.warnings)
    /\ UNCHANGED <<xlsx, run, mapRejectsNaN, prev>>

\* lines 191-267, called at line 271
plotInteractive ==
    /\ pc = "plotInteractive"
    /\ SaveAndContinue("plotInteractive", it_output_path,
                       InteractiveFigure(InteractiveFrame(df)), "exit", <<>>)
    /\ UNCHANGED <<xlsx, df, run, mapRejectsNaN, prev>>

\* the script is invoked again on the same sheet
RunAgain ==
    /\ pc \in {"exit", "crashed"}
    /\ run < MaxRuns
    /\ run' = run + 1
    /\ pc' = "start"
    /\ exc' = "none"
    /\ df' = NoFrame
    /\ prev' = [files |-> files, logLen |-> Len(log), clean |-> RunClean]
    /\ UNCHANGED <<xlsx, files, log, faultsLeft, mapRejectsNaN>>

Next == Start \/ plotTimeGraph \/ plotHeatMap \/ plotInteractive \/ RunAgain

Spec == Init /\ [][Next]_vars

(***************************************************************************)
(* Vocabulary of the properties.                                           *)
(***************************************************************************)
Loaded == xlsx.k = "xlsx"

Renderers == {"plotTimeGraph", "plotHeatMap", "plotInteractive"}

PathOf(fn) ==
    CASE fn = "plotTimeGraph" -> ts_output_path
      [] fn = "plotHeatMap" -> hm_output_path
      [] fn = "plotInteractive" -> it_output_path

\* what the script does after renderer fn has returned
Successor(fn) ==
    CASE fn = "plotTimeGraph" -> "plotHeatMap"
      [] fn = "plotHeatMap" -> "plotInteractive"
      [] fn = "plotInteractive" -> "exit"
      [] OTHER -> "none"

Logged(entries, e) == \E i \in 1..Len(entries) : entries[i] = e

\* renderer fn has just returned, and its save step has written the file
Returned(fn) ==
    /\ Loaded
    /\ pc = Successor(fn)
    /\ log[Len(log)] = Entry(fn, "saved", PathOf(fn))

\* plotHeatMap has just returned: df is the located frame it worked from
HeatMapBuilt == Loaded /\ pc = "plotInteractive"

\* plotHeatMap has just returned and its document is the one on disk
HeatMapSaved == Returned("plotHeatMap")

StationAverages == GroupMeans(HeatMapFrame(df)).rows

HasChild(doc, kind, caption) ==
    \E i \in 1..Len(doc.children) :
        /\ doc.children[i].kind = kind
        /\ doc.children[i].kind # "LayerControl"
        /\ (IF kind = "FeatureGroup" THEN doc.children[i].name
            ELSE doc.children[i].caption) = caption

Date1 == Num(20240101)

(***************************************************************************)
(* C1: in each renderer, an exception raised inside the save step is       *)
(* caught and logged, the renderer returns normally, and the script goes   *)
(* on with the renderer that comes next in the fixed order.                *)
(***************************************************************************)
C1_SaveFailureIsContained ==
    [][faultsLeft' < faultsLeft =>
          /\ pc \in Renderers
          /\ pc' = Successor(pc)
          /\ exc' = "none"
          /\ log'[Len(log')].fn = pc
          /\ log'[Len(log')].msg = "An error occurred"]_vars

C1_Witness ==
    /\ pc = "exit"
    /\ SaveFailed(RunLog, "plotTimeGraph")
    /\ Logged(RunLog, Entry("plotHeatMap", "saved", hm_output_path))
    /\ Logged(RunLog, Entry("plotInteractive", "saved", it_output_path))

(***************************************************************************)
(* C2: the table passed to plotHeatMap and to plotInteractive has exactly  *)
(* the columns and cell values of the table as loaded from the sheet.      *)
(***************************************************************************)
C2_RenderersLeaveTableUnchanged ==
    (Loaded /\ pc \in {"plotHeatMap", "plotInteractive"})
        => df = ReadExcel(xlsx.sheet)

(***************************************************************************)
(* C3 as stated: in the end-to-end scenario the two morning rows collapse  *)
(* into one point of mean 120 / 170, and the evening point is computed     *)
(* from the clipped prices 200 / 150.                                      *)
(***************************************************************************)
C3_ScenarioAsClaimed ==
    (Returned("plotTimeGraph") /\ xlsx.sheet = ScenarioSheet) =>
        LET fig == files[ts_output_path]
        IN  /\ fig.pivot_regular.cell[<<Date1, Str(morning)>>] = Num(120)
            /\ fig.pivot_premium.cell[<<Date1, Str(morning)>>] = Num(170)
            /\ fig.pivot_regular.cell[<<Date1, Str(evening)>>] = Num(RegularUpper)
            /\ fig.pivot_premium.cell[<<Date1, Str(evening)>>] = Num(PremiumLower)

(***************************************************************************)
(* C3 amended: in the end-to-end scenario the two morning rows collapse    *)
(* into one "morning" point of mean 120 / 170; the evening point of the    *)
(* time series and of the dashboard is computed from the unclipped 999 /   *)
(* 5; the clipping to 200 / 150 happens in the heat map alone, whose one   *)
(* station averages (110+130+200)/3 and (160+180+150)/3.                   *)
(***************************************************************************)
C3_ScenarioAmended ==
    (Loaded /\ xlsx.sheet = ScenarioSheet) =>
        /\ Returned("plotTimeGraph") =>
             LET fig == files[ts_output_path]
             IN  /\ fig.pivot_regular.columns = {Str(morning), Str(evening)}
                 /\ fig.pivot_regular.cell[<<Date1, Str(morning)>>] = Num(120)
                 /\ fig.pivot_premium.cell[<<Date1, Str(morning)>>] = Num(170)
                 /\ fig.pivot_regular.cell[<<Date1, Str(evening)>>] = Num(999)
                 /\ fig.pivot_premium.cell[<<Date1, Str(evening)>>] = Num(5)
        /\ Returned("plotInteractive") =>
             LET traces == files[it_output_path].traces
             IN  /\ Len(traces) = 4
                 /\ traces[1].name = <<"Regular", Str(morning)>>
                 /\ Len(traces[1].points) = 2
                 /\ traces[2].name = <<"Regular", Str(evening)>>
                 /\ traces[2].points[1].y = Num(999)
                 /\ traces[4].points[1].y = Num(5)
        /\ HeatMapBuilt =>
             LET avg == StationAverages
             IN  /\ Len(avg) = 1
                 /\ avg[1]["Regular Price"] = Rat(110 + 130 + RegularUpper, 3)
                 /\ avg[1]["Premium Price"] = Rat(160 + 180 + PremiumLower, 3)

C3_Witness ==
    /\ Returned("plotInteractive")
    /\ xlsx.sheet = ScenarioSheet
    /\ RunClean
    /\ files[ts_output_path].k = "png"
    /\ Len(files[ts_output_path].lines) = 4

(***************************************************************************)
(* C4: in the heat map every regular price below 100 counts as 100 and     *)
(* above 200 as 200, every premium price below 150 as 150 and above 250 as *)
(* 250, before the mean of a station group is taken, and no such row is    *)
(* dropped; so every mean lies in [100,200] resp. [150,250], and regular   *)
(* observations 120 and 140 of one station average 130.                    *)
(***************************************************************************)
ClampRef(v, lo, hi) == IF v < lo THEN lo ELSE IF v > hi THEN hi ELSE v

RECURSIVE ClampedSum(_, _, _, _)
ClampedSum(rows, price, lo, hi) ==
    IF rows = <<>> THEN 0
    ELSE ClampRef(Head(rows)[price].n, lo, hi) + ClampedSum(Tail(rows), price, lo, hi)

\* the rows of the located frame that belong to the group of key
Observations(key) ==
    Filter(df.rows, LAMBDA r : /\ KeyOf(r) = key
                               /\ IsNum(r["Regular Price"])
                               /\ IsNum(r["Premium Price"]))

C4_ClippedBeforeAveraging ==
    HeatMapBuilt =>
        LET avg == StationAverages
        IN  /\ \A i \in 1..Len(avg) :
                 LET obs == Observations(KeyOf(avg[i]))
                     reg == avg[i]["Regular Price"]
                     prem == avg[i]["Premium Price"]
                 IN  /\ Len(obs) > 0
                     /\ reg.n * Len(obs)
                            = reg.d * ClampedSum(obs, "Regular Price", 100, 200)
                     /\ prem.n * Len(obs)
                            = prem.d * ClampedSum(obs, "Premium Price", 150, 250)
                     /\ 100 * reg.d <= reg.n /\ reg.n <= 200 * reg.d
                     /\ 150 * prem.d <= prem.n /\ prem.n <= 250 * prem.d
            /\ \A j \in 1..Len(df.rows) :
                 LET r == df.rows[j]
                 IN  (/\ IsNum(r["Regular Price"])
                      /\ IsNum(r["Premium Price"])
                      /\ r["Station Name"].k = "str")
                     => \E i \in 1..Len(avg) : KeyOf(avg[i]) = KeyOf(r)
            /\ xlsx.sheet = <<RowNoon, RowBadTime>> =>
                 avg[1]["Regular Price"] = Num(130)

C4_Witness ==
    /\ HeatMapBuilt
    /\ xlsx.sheet = <<RowExtreme, RowBadTime>>
    /\ Len(StationAverages) = 1
    /\ StationAverages[1]["Regular Price"] = Num(120)
    /\ StationAverages[1]["Premium Price"] = Num(215)

(***************************************************************************)
(* C5: a row whose Location does not evaluate to a mapping holding         *)
(* "Latitude" and "Longitude" is fatal: the exception raised in            *)
(* plotHeatMap propagates and ends the run, after plotTimeGraph has        *)
(* completed its save step, with no heat map saved by the run and          *)
(* plotInteractive never run.                                              *)
(***************************************************************************)
BadLocation(r) == r["Location"] \notin {Str(LocToronto), Str(LocOttawa)}

HasBadLocation == \E i \in 1..Len(xlsx.sheet) : BadLocation(xlsx.sheet[i])

C5_BadLocationIsFatal ==
    (Loaded /\ HasBadLocation) =>
        /\ pc \notin {"plotInteractive", "exit"}
        /\ pc = "crashed" =>
             /\ exc = "eval Location"
             /\ \E i \in 1..Len(RunLog) :
                    /\ RunLog[i].fn = "plotTimeGraph"
                    /\ RunLog[i].msg \in {"saved", "An error occurred"}
             /\ \A i \in 1..Len(RunLog) :
                    RunLog[i].fn \notin {"plotHeatMap", "plotInteractive"}
             /\ files[hm_output_path] = prev.files[hm_output_path]
             /\ files[it_output_path] = prev.files[it_output_path]

C5_Witness ==
    /\ Loaded
    /\ HasBadLocation
    /\ pc = "crashed"
    /\ exc = "eval Location"
    /\ files[ts_output_path].k = "png"
    /\ files[hm_output_path] = Absent

(***************************************************************************)
(* C6: a row whose Query Time cannot be parsed is absent from the data of  *)
(* the time series (both pivot tables and the lines drawn from them are    *)
(* those of the sheet without such rows) and from every trace of the       *)
(* interactive dashboard.                                                  *)
(***************************************************************************)
Unparseable(r) == r["Query Time"] \in {Str("n/a"), NaN}

ParseableRows == Filter(xlsx.sheet, LAMBDA r : ~Unparseable(r))

C6_UnparseableRowsAbsent ==
    /\ Returned("plotTimeGraph") =>
         files[ts_output_path] =
            TimeGraphFigure(TimeGraphFrame(TimeGraphParsed(ReadExcel(ParseableRows))))
    /\ Returned("plotInteractive") =>
         LET traces == files[it_output_path].traces
         IN  /\ \A i \in 1..Len(traces) : \A j \in 1..Len(traces[i].points) :
                    ~Unparseable(xlsx.sheet[traces[i].points[j].index.n + 1])
             /\ \A n \in 1..Len(xlsx.sheet) :
                    ~Unparseable(xlsx.sheet[n]) =>
                        \E i \in 1..Len(traces) : \E j \in 1..Len(traces[i].points) :
                            traces[i].points[j].index = Num(n - 1)

C6_Witness ==
    /\ Returned("plotInteractive")
    /\ \E i \in 1..Len(xlsx.sheet) : Unparseable(xlsx.sheet[i])
    /\ \E i \in 1..Len(xlsx.sheet) : ~Unparseable(xlsx.sheet[i])
    /\ files[ts_output_path].k = "png"
    /\ Len(files[ts_output_path].lines) > 0
    /\ files[it_output_path].k = "html"
    /\ Len(files[it_output_path].traces) > 0

(***************************************************************************)
(* C7: in the heat map a price type's marker layer and its legend are on   *)
(* the map exactly when two station means of that type differ; otherwise   *)
(* a warning is logged and nothing is raised, and the other price type's   *)
(* layer is decided by its own range.                                      *)
(***************************************************************************)
MeansDiffer(avg, price) ==
    \E i, j \in 1..Len(avg) : avg[i][price] # avg[j][price]

LayerRule(avg, price, caption, what) ==
    /\ HasChild(files[hm_output_path], "FeatureGroup", caption) <=> MeansDiffer(avg, price)
    /\ HasChild(files[hm_output_path], "LinearColormap", caption) <=> MeansDiffer(avg, price)
    /\ Logged(RunLog, Entry("plotHeatMap", "Warning: Invalid thresholds", what))
           <=> ~MeansDiffer(avg, price)

C7_LayerIffRangeNotDegenerate ==
    /\ HeatMapSaved =>
         LET avg == StationAverages
         IN  /\ LayerRule(avg, "Regular Price", "Regular Gas Prices", "regular")
             /\ LayerRule(avg, "Premium Price", "Premium Gas Prices", "premium")
    /\ (Loaded /\ pc = "crashed" /\ exc \notin {"eval Location", "read_excel"}) =>
         Len(StationAverages) = 0

C7_Witness ==
    /\ HeatMapSaved
    /\ Len(StationAverages) = 2
    /\ ~HasChild(files[hm_output_path], "FeatureGroup", "Regular Gas Prices")
    /\ ~HasChild(files[hm_output_path], "LinearColormap", "Regular Gas Prices")
    /\ HasChild(files[hm_output_path], "FeatureGroup", "Premium Gas Prices")
    /\ HasChild(files[hm_output_path], "LinearColormap", "Premium Gas Prices")

(***************************************************************************)
(* C8: two runs in succession on the same sheet, neither with a failed     *)
(* save, leave the three output files after the second run as they were    *)
(* after the first, whatever files existed before the first.               *)
(***************************************************************************)
C8_SecondRunSameOutputs ==
    (run >= 2 /\ pc \in {"exit", "crashed"} /\ prev.clean /\ RunClean)
        => files = prev.files

C8_Witness ==
    /\ run = 2
    /\ pc = "exit"
    /\ prev.clean
    /\ RunClean
    /\ \A p \in OutputPaths : files[p].k \in {"png", "html"}
    /\ Len(files[ts_output_path].lines) > 0

(***************************************************************************)
(* C9: every layer added to the heat map holds exactly one marker per      *)
(* Station ID that has a row with both prices present, for any table.      *)
(***************************************************************************)
PricedStations ==
    {r["Station ID"] : r \in {x \in Range(df.rows) :
                                IsNum(x["Regular Price"]) /\ IsNum(x["Premium Price"])}}

C9_OneMarkerPerStation ==
    HeatMapSaved =>
        \A i \in 1..Len(files[hm_output_path].children) :
            LET child == files[hm_output_path].children[i]
            IN  child.kind = "FeatureGroup" =>
                    Len(child.markers) = Cardinality(PricedStations)

(***************************************************************************)
(* C10 as stated: when the output file existed, its removal succeeded and  *)
(* the write raised, the output file is absent when the renderer returns.  *)
(***************************************************************************)
\* renderer fn has just returned from a save step in which the file
\* existed, was removed, and the write raised
WriteFailedAfterRemoval(fn) ==
    /\ Len(log) >= 2
    /\ log[Len(log)] = Entry(fn, "An error occurred", "write")
    /\ log[Len(log) - 1] = Entry(fn, "already exists. Deleting it.", PathOf(fn))

RemovalFailed(fn) ==
    /\ Len(log) >= 1
    /\ log[Len(log)] = Entry(fn, "An error occurred", "remove")

====
